---- MODULE Spec2Model ----
(***************************************************************************)
(* Purchase order lifecycle of the purchase module (src/purchase.py):      *)
(* workflow buttons, amount caching, invoice / shipment state derivation,  *)
(* the processing pipeline and the two exception-handling wizards; and the *)
(* row ids of the product cost history query (src/product.py).             *)
(*                                                                         *)
(* Framework semantics the module relies on (trytond 3.0):                 *)
(*  - Workflow.transition(state) keeps the records whose (current, state)  *)
(*    pair is in _transitions, writes the new state on them and THEN calls *)
(*    the decorated method with the kept records;                          *)
(*  - a user error aborts the transaction: nothing of the call persists;   *)
(*  - a field read after a write sees the written value;                   *)
(*  - ModelStorage.copy copies every stored field that is not overridden   *)
(*    by `default`, Many2Many fields included, and copies One2Many lines   *)
(*    through the target model's own copy.                                 *)
(*                                                                         *)
(* Amounts are integers counted in 1/10000 of the currency unit (the four  *)
(* digits of unit_price); the currency rounds to 1/100.                    *)
(***************************************************************************)
EXTENDS Integers, Sequences, FiniteSets, TLC

\* ---------------------------------------------------------------- bounds
MaxPurchases == 2
MaxInvoices == 2
MaxLines == 5
MaxMoves == 2

\* The largest id of a property and the latest date (in seconds since the
\* epoch) of a row of its history.
MaxPropertyId == 11
MaxEpoch == 2

\* Digits of unit_price and of the currency, as powers of ten of the unit.
CurrencyRounding == 100

\* The single tax of the model: 10 % of the base.
TaxRatePercent == 10

Quantities == {-1, 1, 2}
UnitPrices == {250}

None == <<>>
Some(v) == <<v>>

\* ------------------------------------------------------------- variables
VARIABLES
    purchase,          \* Seq of purchase records (index = id)
    invoice,           \* Seq of account.invoice records (index = id)
    move,              \* Seq of stock.move records (index = id)
    shipment_return,   \* number of stock.shipment.in.return records
    sequence,          \* last number given by the purchase sequence
    wizard,            \* the open exception wizard session, if any
    ir_property,       \* ids of the rows of table ir_property
    ir_property_history,  \* rows of ir_property__history: <<date, id>>
    cost_history       \* rows of the cost history query: <<id, date>>

\* The tables the cost history of src/product.py reads, and its result.
cost_vars == <<ir_property, ir_property_history, cost_history>>

vars == <<purchase, invoice, move, shipment_return, sequence, wizard,
          cost_vars>>

\* No property is stored and the cost history has not been queried.
NoCostHistory ==
    /\ ir_property = {}
    /\ ir_property_history = {}
    /\ cost_history = {}

\* The stored records as one value, so that methods compose.
Cur ==
    [purchase |-> purchase, invoice |-> invoice, move |-> move,
     shipment_return |-> shipment_return, sequence |-> sequence,
     error |-> ""]

\* ---------------------------------------------------------------- helpers
Range(s) == {s[i] : i \in DOMAIN s}

Abs(x) == IF x < 0 THEN -x ELSE x

RECURSIVE SumSeq(_)
SumSeq(s) == IF s = <<>> THEN 0 ELSE Head(s) + SumSeq(Tail(s))

\* Currency.round: to the nearest multiple of the rounding, half to even.
CurrencyRound(x) ==
    LET q == x \div CurrencyRounding
        r == x % CurrencyRounding
    IN IF 2 * r < CurrencyRounding THEN q * CurrencyRounding
       ELSE IF 2 * r > CurrencyRounding THEN (q + 1) * CurrencyRounding
       ELSE IF q % 2 = 0 THEN q * CurrencyRounding
       ELSE (q + 1) * CurrencyRounding

\* The purchase states and the transitions of the workflow.
States == {"draft", "quotation", "confirmed", "done", "cancel"}

Transitions ==
    {<<"draft", "quotation">>, <<"quotation", "confirmed">>,
     <<"confirmed", "confirmed">>, <<"draft", "cancel">>,
     <<"quotation", "cancel">>, <<"quotation", "draft">>,
     <<"cancel", "draft">>}

StatesCached == {"confirmed", "done", "cancel"}

InvoiceMethods == {"manual", "order", "shipment"}

InvoiceStates == {"none", "waiting", "paid", "exception"}

ShipmentStates == {"none", "waiting", "received", "exception"}

LineTypes == {"line", "subtotal", "title", "comment"}

ProductTypes == {"none", "service", "goods"}

TaxIds == {"vat"}

\* ------------------------------------------------------------------ lines
\* A purchase line; quantity, unit_price, product and taxes are only filled
\* on lines of type 'line' (None is modelled as 0 / "none" / {}).
Line(type, quantity, product, taxes) ==
    [type |-> type, quantity |-> quantity,
     unit_price |-> IF type = "line" THEN 250 ELSE 0,
     product |-> product, taxes |-> taxes,
     moves_ignored |-> {}, moves_recreated |-> {}]

\* `line.quantity >= 0`: the quantity of a line that is not of type 'line'
\* is None, and None >= 0 is False (Python 2 ordering).
QuantityGE0(l) == l.type = "line" /\ l.quantity >= 0

\* PurchaseLine.moves: the stock moves whose origin is the line.
LineMoves(d, p, i) == {m \in DOMAIN d.move : d.move[m].origin = <<p, i>>}

\* PurchaseLine.invoice_lines: the invoice lines whose origin is the line,
\* each named by <<invoice id, position>>.
LineInvoiceLines(d, p, i) ==
    {<<n, k>> \in (DOMAIN d.invoice) \X (1 .. MaxInvoices * 4) :
        /\ k \in DOMAIN d.invoice[n].lines
        /\ d.invoice[n].lines[k].origin = <<p, i>>}

\* Purchase.moves
PurchaseMoves(d, p) ==
    UNION {LineMoves(d, p, i) : i \in DOMAIN d.purchase[p].lines}

\* The rounded amount of a line of type 'line'.
LineRoundedAmount(l) == CurrencyRound(l.quantity * l.unit_price)

\* A faulty subtotal loop that does not start again after a subtotal.
RECURSIVE SubtotalLoopNoReset(_, _, _, _)
SubtotalLoopNoReset(lines, i, k, amount) ==
    IF k > Len(lines) THEN amount
    ELSE IF lines[k].type = "line"
         THEN SubtotalLoopNoReset(lines, i, k + 1,
                                  amount + LineRoundedAmount(lines[k]))
    ELSE IF lines[k].type = "subtotal" /\ k = i THEN amount
    ELSE SubtotalLoopNoReset(lines, i, k + 1, amount)

\* The loop of get_amount over the lines of the purchase, for the subtotal
\* line at position i.
RECURSIVE SubtotalLoop(_, _, _, _)
SubtotalLoop(lines, i, k, amount) ==
    IF k > Len(lines) THEN amount
    ELSE IF lines[k].type = "line"
         THEN SubtotalLoop(lines, i, k + 1, amount + LineRoundedAmount(lines[k]))
    ELSE IF lines[k].type = "subtotal"
         THEN IF k = i THEN amount ELSE SubtotalLoop(lines, i, k + 1, 0)
    ELSE SubtotalLoop(lines, i, k + 1, amount)

\* PurchaseLine.get_amount
LineGetAmount(lines, i) ==
    IF lines[i].type = "line" THEN LineRoundedAmount(lines[i])
    ELSE IF lines[i].type = "subtotal" THEN SubtotalLoop(lines, i, 1, 0)
    ELSE 0

\* PurchaseLine.on_change_with_amount
LineOnChangeWithAmount(l, currency) ==
    IF l.type = "line"
    THEN IF currency THEN CurrencyRound(l.quantity * l.unit_price)
         ELSE l.quantity * l.unit_price
    ELSE 0

\* Tax.compute followed by Invoice._compute_tax: the unrounded amount of
\* tax t on one line.
LineTax(l, t) ==
    IF t \in l.taxes
    THEN (l.unit_price * TaxRatePercent * l.quantity) \div 100
    ELSE 0

\* The `taxes` dictionary of get_tax_amount / on_change_lines: per tax, the
\* sum over the lines of type 'line' (no rounding per line).
TaxesOf(lines, t) ==
    SumSeq([k \in DOMAIN lines |->
                IF lines[k].type = "line" THEN LineTax(lines[k], t) ELSE 0])

TaxKeys(lines) ==
    {t \in TaxIds : \E k \in DOMAIN lines :
                        lines[k].type = "line" /\ t \in lines[k].taxes}

\* The sum of the rounded values of the `taxes` dictionary.
RECURSIVE SumRoundedTaxes(_, _)
SumRoundedTaxes(lines, keys) ==
    IF keys = {} THEN 0
    ELSE LET t == CHOOSE x \in keys : TRUE
         IN CurrencyRound(TaxesOf(lines, t))
                + SumRoundedTaxes(lines, keys \ {t})

\* Purchase.get_tax_amount
GetTaxAmount(lines) == SumRoundedTaxes(lines, TaxKeys(lines))

\* The untaxed amount computed from the lines.
LinesUntaxed(lines) ==
    SumSeq([k \in DOMAIN lines |->
                IF lines[k].type = "line" THEN LineGetAmount(lines, k) ELSE 0])

\* --------------------------------------------------------------- amounts
\* The three-valued result of get_amount for one purchase.
Amounts(u, t, total) ==
    [untaxed_amount |-> u, tax_amount |-> t, total_amount |-> total]

\* A faulty total that leaves the tax out.
GetAmountTotalUntaxed(u, t) == u

\* The total of the computed branch of get_amount.
GetAmountTotal(u, t) == u + t

\* A faulty cache test that does not look at the state.
UsesCacheAnyState(pr) ==
    /\ pr.untaxed_amount_cache # None
    /\ pr.tax_amount_cache # None
    /\ pr.total_amount_cache # None

\* Whether get_amount answers from the cache fields.
UsesCache(pr) ==
    /\ pr.state \in StatesCached
    /\ pr.untaxed_amount_cache # None
    /\ pr.tax_amount_cache # None
    /\ pr.total_amount_cache # None

\* The amounts computed from the lines (the else branch of get_amount).
LiveAmounts(pr) ==
    Amounts(LinesUntaxed(pr.lines), GetTaxAmount(pr.lines),
            GetAmountTotal(LinesUntaxed(pr.lines), GetTaxAmount(pr.lines)))

\* Purchase.get_amount
GetAmount(pr) ==
    IF UsesCache(pr)
    THEN Amounts(pr.untaxed_amount_cache[1], pr.tax_amount_cache[1],
                 pr.total_amount_cache[1])
    ELSE LiveAmounts(pr)

OnChangeTotal(u, t, currency) ==
    IF currency THEN CurrencyRound(u + t) ELSE u + t

\* Purchase.on_change_lines on the lines of the form, with or without a
\* currency set on the form.
OnChangeLines(lines, currency) ==
    LET untaxed0 == SumSeq([k \in DOMAIN lines |->
                        IF lines[k].type = "line"
                        THEN LineOnChangeWithAmount(lines[k], currency)
                        ELSE 0])
        tax0 == IF currency
                THEN SumRoundedTaxes(lines, TaxKeys(lines))
                ELSE 0
        untaxed == IF currency THEN CurrencyRound(untaxed0) ELSE untaxed0
        tax == IF currency THEN CurrencyRound(tax0) ELSE tax0
    IN Amounts(untaxed, tax, OnChangeTotal(untaxed, tax, currency))

\* Model.write on one purchase.
WritePurchase(d, p, values) ==
    [d EXCEPT !.purchase[p] =
        [f \in DOMAIN @ |-> IF f \in DOMAIN values THEN values[f] ELSE @[f]]]

\* Purchase.store_cache, one purchase of the loop.
StoreCacheOne(d, p) ==
    WritePurchase(d, p,
        [untaxed_amount_cache |-> Some(GetAmount(d.purchase[p]).untaxed_amount),
         tax_amount_cache |-> Some(GetAmount(d.purchase[p]).tax_amount),
         total_amount_cache |-> Some(GetAmount(d.purchase[p]).total_amount)])

RECURSIVE StoreCache(_, _)
StoreCache(d, ps) ==
    IF ps = <<>> THEN d ELSE StoreCache(StoreCacheOne(d, Head(ps)), Tail(ps))


\* ------------------------------------------------------- state derivation
\* The invoices get_invoice_state looks at: linked and not skipped.
ActiveInvoices(pr) ==
    pr.invoices \ (pr.invoices_ignored \cup pr.invoices_recreated)

\* A faulty get_invoice_state that skips the ignored invoices only.
GetInvoiceStateIgnoredOnly(d, p) ==
    LET invoices == d.purchase[p].invoices \ d.purchase[p].invoices_ignored
    IN IF invoices # {}
       THEN IF \E i \in invoices : d.invoice[i].state = "cancel"
            THEN "exception"
            ELSE IF \A i \in invoices : d.invoice[i].state = "paid"
                 THEN "paid"
                 ELSE "waiting"
       ELSE "none"

\* Purchase.get_invoice_state
GetInvoiceState(d, p) ==
    LET invoices == ActiveInvoices(d.purchase[p])
    IN IF invoices # {}
       THEN IF \E i \in invoices : d.invoice[i].state = "cancel"
            THEN "exception"
            ELSE IF \A i \in invoices : d.invoice[i].state = "paid"
                 THEN "paid"
                 ELSE "waiting"
       ELSE "none"

\* The write calls a method issues on one purchase, applied in order.
RECURSIVE ApplyWrites(_, _, _)
ApplyWrites(d, p, writes) ==
    IF writes = <<>> THEN d
    ELSE ApplyWrites(WritePurchase(d, p, Head(writes)), p, Tail(writes))

\* A faulty set_invoice_state that writes the state it derives in any case.
SetInvoiceStateWritesAlways(d, p) ==
    <<[invoice_state |-> GetInvoiceState(d, p)]>>

\* The write calls of set_invoice_state: one, if the state it derives is
\* not the stored one.
SetInvoiceStateWrites(d, p) ==
    IF d.purchase[p].invoice_state # GetInvoiceState(d, p)
    THEN <<[invoice_state |-> GetInvoiceState(d, p)]>>
    ELSE <<>>

\* Purchase.set_invoice_state
SetInvoiceState(d, p) == ApplyWrites(d, p, SetInvoiceStateWrites(d, p))

RECURSIVE SumMoveQuantity(_, _)
SumMoveQuantity(d, S) ==
    IF S = {} THEN 0
    ELSE LET m == CHOOSE x \in S : TRUE
         IN d.move[m].quantity + SumMoveQuantity(d, S \ {m})

\* A faulty get_move_done that counts the quantity of the done moves only.
GetMoveDoneDoneOnly(d, p, i) ==
    LET l == d.purchase[p].lines[i]
        skip_ids == l.moves_recreated \cup l.moves_ignored
        moves == LineMoves(d, p, i)
    IN IF l.product = "none" THEN TRUE
       ELSE IF l.product = "service" THEN TRUE
       ELSE IF \E m \in moves :
                   d.move[m].state # "done" /\ m \notin skip_ids
            THEN FALSE
            ELSE ~(l.quantity
                     - SumMoveQuantity(d, {m \in moves :
                                              d.move[m].state = "done"}) > 0)

\* PurchaseLine.get_move_done: the loop breaks at the first move that is
\* neither done nor skipped; otherwise every move is subtracted.
GetMoveDone(d, p, i) ==
    LET l == d.purchase[p].lines[i]
        skip_ids == l.moves_recreated \cup l.moves_ignored
        moves == LineMoves(d, p, i)
    IN IF l.product = "none" THEN TRUE
       ELSE IF l.product = "service" THEN TRUE
       ELSE IF \E m \in moves :
                   d.move[m].state # "done" /\ m \notin skip_ids
            THEN FALSE
            ELSE ~(l.quantity - SumMoveQuantity(d, moves) > 0)

\* PurchaseLine.get_move_exception
GetMoveException(d, p, i) ==
    LET l == d.purchase[p].lines[i]
        skip_ids == l.moves_ignored \cup l.moves_recreated
    IN \E m \in LineMoves(d, p, i) :
           d.move[m].state = "cancel" /\ m \notin skip_ids

\* A faulty get_shipment_state that does not look for moves first.
GetShipmentStateNoMoves(d, p) ==
    LET lines == d.purchase[p].lines
    IN IF \E i \in DOMAIN lines : GetMoveException(d, p, i)
       THEN "exception"
       ELSE IF \A i \in DOMAIN lines : GetMoveDone(d, p, i)
            THEN "received"
            ELSE "waiting"

\* Purchase.get_shipment_state
GetShipmentState(d, p) ==
    LET lines == d.purchase[p].lines
    IN IF PurchaseMoves(d, p) # {}
       THEN IF \E i \in DOMAIN lines : GetMoveException(d, p, i)
            THEN "exception"
            ELSE IF \A i \in DOMAIN lines : GetMoveDone(d, p, i)
                 THEN "received"
                 ELSE "waiting"
       ELSE "none"

\* The write calls of set_shipment_state.
SetShipmentStateWrites(d, p) ==
    IF d.purchase[p].shipment_state # GetShipmentState(d, p)
    THEN <<[shipment_state |-> GetShipmentState(d, p)]>>
    ELSE <<>>

\* Purchase.set_shipment_state
SetShipmentState(d, p) == ApplyWrites(d, p, SetShipmentStateWrites(d, p))

\* A faulty is_done that looks at the shipment state only.
IsDoneShipmentOnly(pr) == pr.shipment_state = "received"

\* Purchase.is_done
IsDone(pr) ==
    /\ (pr.invoice_state = "paid" \/ pr.invoice_method = "manual")
    /\ pr.shipment_state = "received"

\* ---------------------------------------------------------------- invoices
RECURSIVE SumInvoiceLineQuantity(_, _)
SumInvoiceLineQuantity(d, S) ==
    IF S = {} THEN 0
    ELSE LET x == CHOOSE y \in S : TRUE
         IN d.invoice[x[1]].lines[x[2]].quantity
                + SumInvoiceLineQuantity(d, S \ {x})

\* A faulty base quantity that takes the ordered quantity whatever the
\* invoice method is.
InvoiceLineBaseQuantityOrdered(d, p, i) == Abs(d.purchase[p].lines[i].quantity)

\* The quantity get_invoice_line starts from, by invoice method.
InvoiceLineBaseQuantity(d, p, i) ==
    LET l == d.purchase[p].lines[i]
    IN IF \/ d.purchase[p].invoice_method = "order"
          \/ l.product = "none"
          \/ l.product = "service"
       THEN Abs(l.quantity)
       ELSE SumMoveQuantity(d,
                {m \in LineMoves(d, p, i) : d.move[m].state = "done"})

\* A faulty selection of the old invoice lines that keeps the lines of the
\* recreated invoices.
InvoicedLinesRecreatedToo(d, p, i) ==
    {x \in LineInvoiceLines(d, p, i) :
        d.invoice[x[1]].lines[x[2]].type = "line"}

\* The old invoice lines get_invoice_line subtracts: of type 'line' and
\* not on a recreated invoice.
InvoicedLines(d, p, i) ==
    {x \in LineInvoiceLines(d, p, i) :
        /\ d.invoice[x[1]].lines[x[2]].type = "line"
        /\ x[1] \notin d.purchase[p].invoices_recreated}

\* A faulty get_invoice_line that copies the lines that are not of type
\* 'line' whatever the invoice method is.
GetInvoiceLineAnyMethod(d, p, i, invoice_type) ==
    LET l == d.purchase[p].lines[i]
        lines == d.purchase[p].lines
        quantity == InvoiceLineBaseQuantity(d, p, i)
                        - SumInvoiceLineQuantity(d, InvoicedLines(d, p, i))
    IN IF l.type # "line"
       THEN IF /\ LineInvoiceLines(d, p, i) = {}
               /\ \/ /\ \A k \in DOMAIN lines :
                          lines[k].type = "line" => lines[k].quantity >= 0
                     /\ invoice_type = "in_invoice"
                  \/ /\ \A k \in DOMAIN lines :
                          lines[k].type = "line" => lines[k].quantity <= 0
                     /\ invoice_type = "in_credit_note"
            THEN <<[origin |-> <<p, i>>, type |-> l.type, quantity |-> 0]>>
            ELSE <<>>
       ELSE IF (invoice_type = "in_invoice") # (l.quantity >= 0) THEN <<>>
       ELSE IF quantity <= 0 THEN <<>>
       ELSE <<[origin |-> <<p, i>>, type |-> "line", quantity |-> quantity]>>

\* PurchaseLine.get_invoice_line: the list of invoice lines for one line.
GetInvoiceLine(d, p, i, invoice_type) ==
    LET l == d.purchase[p].lines[i]
        lines == d.purchase[p].lines
        quantity == InvoiceLineBaseQuantity(d, p, i)
                        - SumInvoiceLineQuantity(d, InvoicedLines(d, p, i))
    IN IF l.type # "line"
       THEN IF /\ d.purchase[p].invoice_method = "order"
               /\ LineInvoiceLines(d, p, i) = {}
               /\ \/ /\ \A k \in DOMAIN lines :
                          lines[k].type = "line" => lines[k].quantity >= 0
                     /\ invoice_type = "in_invoice"
                  \/ /\ \A k \in DOMAIN lines :
                          lines[k].type = "line" => lines[k].quantity <= 0
                     /\ invoice_type = "in_credit_note"
            THEN <<[origin |-> <<p, i>>, type |-> l.type, quantity |-> 0]>>
            ELSE <<>>
       ELSE IF (invoice_type = "in_invoice") # (l.quantity >= 0) THEN <<>>
       ELSE IF quantity <= 0 THEN <<>>
       ELSE <<[origin |-> <<p, i>>, type |-> "line", quantity |-> quantity]>>

RECURSIVE Flatten(_)
Flatten(ss) == IF ss = <<>> THEN <<>> ELSE Head(ss) \o Flatten(Tail(ss))

\* Purchase._get_invoice_line_purchase_line, chained as create_invoice does.
InvoiceLinesOf(d, p, invoice_type) ==
    Flatten([i \in DOMAIN d.purchase[p].lines |->
                GetInvoiceLine(d, p, i, invoice_type)])

\* Purchase.create_invoice
CreateInvoice(d, p, invoice_type) ==
    IF d.purchase[p].invoice_method = "manual" THEN d
    ELSE IF InvoiceLinesOf(d, p, invoice_type) = <<>> THEN d
    ELSE LET new == Len(d.invoice) + 1
             d1 == [d EXCEPT !.invoice = Append(@,
                        [state |-> "draft", type |-> invoice_type,
                         lines |-> InvoiceLinesOf(d, p, invoice_type)])]
         IN WritePurchase(d1, p,
                [invoices |-> d.purchase[p].invoices \cup {new}])

\* ------------------------------------------------------------------- moves
\* A faulty get_move that also skips the ignored moves.
MoveQuantityLeftSkipIgnored(d, p, i) ==
    LET l == d.purchase[p].lines[i]
    IN Abs(l.quantity)
         - SumMoveQuantity(d, LineMoves(d, p, i)
                                \ (l.moves_recreated \cup l.moves_ignored))

\* A faulty get_move that subtracts the done moves only.
MoveQuantityLeftDoneOnly(d, p, i) ==
    LET l == d.purchase[p].lines[i]
    IN Abs(l.quantity)
         - SumMoveQuantity(d, {m \in LineMoves(d, p, i) \ l.moves_recreated :
                                  d.move[m].state = "done"})

\* A faulty get_move that forgets the moves of the line.
MoveQuantityLeftNoMoves(d, p, i) == Abs(d.purchase[p].lines[i].quantity)

\* The quantity get_move still has to move for a line.
MoveQuantityLeft(d, p, i) ==
    LET l == d.purchase[p].lines[i]
    IN Abs(l.quantity)
         - SumMoveQuantity(d, LineMoves(d, p, i) \ l.moves_recreated)

\* PurchaseLine.get_move: whether a move is to be created for the line.
GetMove(d, p, i) ==
    LET l == d.purchase[p].lines[i]
    IN /\ l.type = "line"
       /\ l.product # "none"
       /\ l.product # "service"
       /\ MoveQuantityLeft(d, p, i) > 0

\* PurchaseLine.create_move
LineCreateMove(d, p, i) ==
    IF GetMove(d, p, i)
    THEN [d EXCEPT !.move = Append(@,
            [state |-> "draft", quantity |-> MoveQuantityLeft(d, p, i),
             origin |-> <<p, i>>, shipment |-> 0])]
    ELSE d

RECURSIVE CreateMoveLoop(_, _, _, _)
CreateMoveLoop(d, p, i, move_type) ==
    IF i > Len(d.purchase[p].lines) THEN d
    ELSE IF QuantityGE0(d.purchase[p].lines[i]) # (move_type = "in")
         THEN CreateMoveLoop(d, p, i + 1, move_type)
         ELSE CreateMoveLoop(LineCreateMove(d, p, i), p, i + 1, move_type)

\* Purchase.create_move: the records after the loop; the new moves are the
\* ones added to d.move.
CreateMove(d, p, move_type) == CreateMoveLoop(d, p, 1, move_type)

\* A faulty create_return_shipment that takes every move without a return
\* shipment.
CreateReturnShipmentAllMoves(d, return_moves) ==
    LET new == d.shipment_return + 1
    IN [d EXCEPT !.shipment_return = new,
                 !.move = [m \in DOMAIN @ |->
                             IF @[m].shipment = 0
                             THEN [@[m] EXCEPT !.shipment = new]
                             ELSE @[m]]]

\* Purchase.create_return_shipment
CreateReturnShipment(d, return_moves) ==
    LET new == d.shipment_return + 1
    IN [d EXCEPT !.shipment_return = new,
                 !.move = [m \in DOMAIN @ |->
                             IF m \in return_moves
                             THEN [@[m] EXCEPT !.shipment = new]
                             ELSE @[m]]]

\* ----------------------------------------------------------------- process
\* The body of the loop of Purchase.process for one purchase, up to and
\* including set_shipment_state.
ProcessSteps(d, p) ==
    LET d1 == CreateInvoice(d, p, "in_invoice")
        d2 == CreateInvoice(d1, p, "in_credit_note")
        d3 == SetInvoiceState(d2, p)
        d4 == CreateMove(d3, p, "in")
        d5 == CreateMove(d4, p, "return")
        return_moves == (DOMAIN d5.move) \ (DOMAIN d4.move)
        d6 == IF return_moves # {}
              THEN CreateReturnShipment(d5, return_moves)
              ELSE d5
    IN SetShipmentState(d6, p)

\* A faulty test that lets process run on the done purchases.
ProcessSkipsCancelOnly(pr) == pr.state = "cancel"

\* Whether process skips the purchase.
ProcessSkips(pr) == pr.state \in {"done", "cancel"}

\* One purchase of Purchase.process, the final write of 'done' included
\* (the purchases are independent, so writing 'done' at the end of the
\* loop or in it gives the same records).
ProcessOne(d, p) ==
    IF ProcessSkips(d.purchase[p]) THEN d
    ELSE LET d1 == ProcessSteps(d, p)
         IN IF IsDone(d1.purchase[p])
            THEN WritePurchase(d1, p, [state |-> "done"])
            ELSE d1

\* Purchase.process
RECURSIVE Process(_, _)
Process(d, ps) ==
    IF ps = <<>> THEN d ELSE Process(ProcessOne(d, Head(ps)), Tail(ps))


\* ------------------------------------------------------------- a purchase
\* A purchase as created: default_state, default_invoice_state and
\* default_shipment_state; no reference, no cache, no link.
NewPurchase(lines, invoice_method, invoice_address, warehouse) ==
    [exists |-> TRUE,
     state |-> "draft",
     reference |-> 0,
     purchase_date |-> FALSE,
     invoice_address |-> invoice_address,
     warehouse |-> warehouse,
     invoice_method |-> invoice_method,
     invoice_state |-> "none",
     shipment_state |-> "none",
     invoices |-> {},
     invoices_ignored |-> {},
     invoices_recreated |-> {},
     untaxed_amount_cache |-> None,
     tax_amount_cache |-> None,
     total_amount_cache |-> None,
     lines |-> lines]

\* ---------------------------------------------------------------- workflow
\* The user error raised so far, if any: once one is raised the rest of the
\* call does nothing.
Raise(d, error) == IF d.error = "" THEN [d EXCEPT !.error = error] ELSE d

RECURSIVE Filtered(_, _, _)
Filtered(d, ps, state) ==
    IF ps = <<>> THEN <<>>
    ELSE IF <<d.purchase[Head(ps)].state, state>> \in Transitions
         THEN <<Head(ps)>> \o Filtered(d, Tail(ps), state)
         ELSE Filtered(d, Tail(ps), state)

RECURSIVE WriteState(_, _, _)
WriteState(d, ps, state) ==
    IF ps = <<>> THEN d
    ELSE WriteState(WritePurchase(d, Head(ps), [state |-> state]),
                    Tail(ps), state)

\* Workflow.transition(state): the records after the state is written on
\* the filtered purchases; the decorated method then runs on Filtered.
Transition(d, ps, state) == WriteState(d, Filtered(d, ps, state), state)

\* Purchase.check_for_quotation: the error it raises, "" if none.
CheckForQuotation(pr) ==
    IF ~pr.invoice_address THEN "invoice_address_required"
    ELSE IF \E i \in DOMAIN pr.lines :
               /\ pr.lines[i].product = "goods"
               /\ pr.lines[i].quantity >= 0
               /\ ~pr.warehouse
         THEN "warehouse_required"
         ELSE ""

\* A faulty check loop that checks the first purchase only.
CheckFirstForQuotation(d, ps) ==
    IF ps = <<>> THEN d
    ELSE IF CheckForQuotation(d.purchase[Head(ps)]) # ""
         THEN Raise(d, CheckForQuotation(d.purchase[Head(ps)]))
         ELSE d

\* Purchase.quote, the loop that checks each purchase.
RECURSIVE CheckAllForQuotation(_, _)
CheckAllForQuotation(d, ps) ==
    IF ps = <<>> THEN d
    ELSE IF CheckForQuotation(d.purchase[Head(ps)]) # ""
         THEN Raise(d, CheckForQuotation(d.purchase[Head(ps)]))
         ELSE CheckAllForQuotation(d, Tail(ps))

\* A faulty set_reference that does not keep an existing reference.
SetReferenceOneAlways(d, p) ==
    WritePurchase([d EXCEPT !.sequence = @ + 1], p,
                  [reference |-> d.sequence + 1])

\* Purchase.set_reference, one purchase of the loop.
SetReferenceOne(d, p) ==
    IF d.purchase[p].reference # 0 THEN d
    ELSE WritePurchase([d EXCEPT !.sequence = @ + 1], p,
                       [reference |-> d.sequence + 1])

RECURSIVE SetReference(_, _)
SetReference(d, ps) ==
    IF ps = <<>> THEN d
    ELSE SetReference(SetReferenceOne(d, Head(ps)), Tail(ps))

\* Purchase.set_purchase_date
RECURSIVE SetPurchaseDate(_, _)
SetPurchaseDate(d, ps) ==
    IF ps = <<>> THEN d
    ELSE SetPurchaseDate(
            IF ~d.purchase[Head(ps)].purchase_date
            THEN WritePurchase(d, Head(ps), [purchase_date |-> TRUE])
            ELSE d,
            Tail(ps))

\* Purchase.cancel
CancelOp(d, ps) ==
    StoreCache(Transition(d, ps, "cancel"), Filtered(d, ps, "cancel"))

\* Purchase.draft
DraftOp(d, ps) == Transition(d, ps, "draft")

\* Purchase.quote
QuoteOp(d, ps) ==
    LET d1 == CheckAllForQuotation(Transition(d, ps, "quotation"),
                                   Filtered(d, ps, "quotation"))
    IN IF d1.error # "" THEN d1
       ELSE SetReference(d1, Filtered(d, ps, "quotation"))

\* Purchase.confirm
ConfirmOp(d, ps) ==
    LET filtered == Filtered(d, ps, "confirmed")
        d1 == Transition(d, ps, "confirmed")
        d2 == SetPurchaseDate(d1, filtered)
        d3 == StoreCache(d2, filtered)
    IN Process(d3, filtered)

\* A purchase record that has been deleted.
Deleted ==
    [NewPurchase(<<>>, "manual", FALSE, FALSE) EXCEPT !.exists = FALSE,
                                                       !.state = "cancel"]

\* A faulty delete that does not cancel first.
DeleteOpNoCancel(d, ps) ==
    IF \E k \in DOMAIN ps : d.purchase[ps[k]].state # "cancel"
    THEN Raise(d, "delete_cancel")
    ELSE [d EXCEPT !.purchase =
            [p \in DOMAIN @ |->
                IF p \in Range(ps) THEN Deleted ELSE @[p]]]

\* Purchase.delete
DeleteOp(d, ps) ==
    LET d1 == CancelOp(d, ps)
    IN IF \E k \in DOMAIN ps : d1.purchase[ps[k]].state # "cancel"
       THEN Raise(d1, "delete_cancel")
       ELSE [d1 EXCEPT !.purchase =
                [p \in DOMAIN @ |->
                    IF p \in Range(ps) THEN Deleted ELSE @[p]]]

\* PurchaseLine.copy
LineCopy(l) == [l EXCEPT !.moves_ignored = {}, !.moves_recreated = {}]

\* Purchase.copy, one purchase: the defaults override the copied fields.
PurchaseCopy(pr) ==
    [pr EXCEPT !.state = "draft",
               !.reference = 0,
               !.invoice_state = "none",
               !.invoices = {},
               !.invoices_ignored = {},
               !.shipment_state = "none",
               !.purchase_date = FALSE,
               !.lines = [i \in DOMAIN @ |-> LineCopy(@[i])]]

RECURSIVE CopyOp(_, _)
CopyOp(d, ps) ==
    IF ps = <<>> THEN d
    ELSE CopyOp([d EXCEPT !.purchase =
                    Append(@, PurchaseCopy(d.purchase[Head(ps)]))],
                Tail(ps))

\* ----------------------------------------------------------------- wizards
\* A faulty default_ask that presents the recreated invoices again.
InvoiceDefaultAskRecreated(d, p) ==
    {i \in d.purchase[p].invoices :
        /\ d.invoice[i].state = "cancel"
        /\ i \notin d.purchase[p].invoices_ignored}

\* HandleInvoiceException.default_ask
InvoiceDefaultAsk(d, p) ==
    {i \in d.purchase[p].invoices :
        /\ d.invoice[i].state = "cancel"
        /\ i \notin d.purchase[p].invoices_ignored
                        \cup d.purchase[p].invoices_recreated}

\* HandleShipmentException.default_ask
ShipmentDefaultAsk(d, p) ==
    {m \in PurchaseMoves(d, p) :
        LET l == d.purchase[p].lines[d.move[m].origin[2]]
        IN /\ d.move[m].state = "cancel"
           /\ m \notin l.moves_ignored \cup l.moves_recreated}

\* A faulty selection that classifies again the invoices already ignored or
\* recreated.
InvoicesToClassifyAgain(pr, domain_invoices) ==
    {i \in pr.invoices : i \in domain_invoices}

\* The invoices transition_handle classifies.
InvoicesToClassify(pr, domain_invoices) ==
    {i \in pr.invoices :
        /\ i \in domain_invoices
        /\ i \notin pr.invoices_ignored \cup pr.invoices_recreated}

\* A faulty transition_handle that records the selection and does not
\* process the purchase.
InvoiceHandleNoProcess(d, p, to_recreate, domain_invoices) ==
    LET pr == d.purchase[p]
        todo == InvoicesToClassify(pr, domain_invoices)
    IN WritePurchase(d, p,
            [invoices_ignored |->
                pr.invoices_ignored \cup (todo \ to_recreate),
             invoices_recreated |->
                pr.invoices_recreated \cup (todo \cap to_recreate)])

\* HandleInvoiceException.transition_handle
InvoiceHandle(d, p, to_recreate, domain_invoices) ==
    LET pr == d.purchase[p]
        todo == InvoicesToClassify(pr, domain_invoices)
        d1 == WritePurchase(d, p,
                [invoices_ignored |->
                    pr.invoices_ignored \cup (todo \ to_recreate),
                 invoices_recreated |->
                    pr.invoices_recreated \cup (todo \cap to_recreate)])
    IN Process(d1, <<p>>)

\* The moves of one line transition_handle classifies.
MovesToClassify(d, p, i, domain_moves) ==
    LET l == d.purchase[p].lines[i]
    IN {m \in LineMoves(d, p, i) :
           /\ m \in domain_moves
           /\ m \notin l.moves_ignored \cup l.moves_recreated}

\* HandleShipmentException.transition_handle
ShipmentHandle(d, p, to_recreate, domain_moves) ==
    LET d1 == [d EXCEPT !.purchase[p].lines =
                [i \in DOMAIN @ |->
                    [@[i] EXCEPT
                        !.moves_ignored = @ \cup
                            (MovesToClassify(d, p, i, domain_moves)
                                \ to_recreate),
                        !.moves_recreated = @ \cup
                            (MovesToClassify(d, p, i, domain_moves)
                                \cap to_recreate)]]]
    IN Process(d1, <<p>>)


\* ------------------------------------------------------------ the machine
\* The line sequences a purchase is created with.
LineSets ==
    {<<Line("line", 1, "goods", {"vat"})>>,
     <<Line("line", 1, "goods", {}), Line("line", -1, "goods", {"vat"})>>,
     <<Line("line", 2, "service", {"vat"}), Line("subtotal", 0, "none", {}),
       Line("comment", 0, "none", {})>>,
     <<Line("title", 0, "none", {})>>}

NoWizard == [kind |-> "none", active_id |-> 0, domain |-> {}]

Existing == {p \in DOMAIN purchase : purchase[p].exists}

\* The lists of purchases an operation is called with.
Batches ==
    {<<p>> : p \in Existing}
        \cup {<<p, q>> : <<p, q>> \in {x \in Existing \X Existing : x[1] # x[2]}}

\* The state after the creation of one purchase with the given lines and
\* header fields.
InitWith(lineSets, methods, addresses, warehouses) ==
    /\ \E lines \in lineSets, invoice_method \in methods,
          invoice_address \in addresses, warehouse \in warehouses :
            purchase = <<NewPurchase(lines, invoice_method,
                                     invoice_address, warehouse)>>
    /\ invoice = <<>>
    /\ move = <<>>
    /\ shipment_return = 0
    /\ sequence = 0
    /\ wizard = NoWizard
    /\ NoCostHistory

Init == InitWith(LineSets, InvoiceMethods, BOOLEAN, BOOLEAN)

\* One purchase that is copied: processing it creates invoices and no move.
InitCopy ==
    InitWith({<<Line("line", 1, "service", {"vat"})>>}, {"order"},
             {TRUE}, {TRUE})

\* The lines a purchase form can hold at one position.
LineKinds ==
    {Line("line", q, "service", {"vat"}) : q \in Quantities}
        \cup {Line(t, 0, "none", {}) : t \in {"subtotal", "title", "comment"}}

\* One purchase with any list of at most MaxLines lines.
InitLines ==
    InitWith(UNION {[1 .. n -> LineKinds] : n \in 1 .. MaxLines},
             {"manual"}, {TRUE}, {TRUE})

\* Two purchases of one goods line, each with or without invoice address
\* and warehouse.
InitBatch ==
    /\ \E a1, a2, w1, w2 \in BOOLEAN :
          purchase = <<NewPurchase(<<Line("line", 1, "goods", {"vat"})>>,
                                   "manual", a1, w1),
                       NewPurchase(<<Line("line", 1, "goods", {"vat"})>>,
                                   "manual", a2, w2)>>
    /\ invoice = <<>>
    /\ move = <<>>
    /\ shipment_return = 0
    /\ sequence = 0
    /\ wizard = NoWizard
    /\ NoCostHistory

\* One purchase whose lines are edited while it is a draft.
InitAmounts ==
    InitWith({<<Line("line", 1, "goods", {"vat"}),
                Line("line", 2, "service", {"vat"}),
                Line("subtotal", 0, "none", {})>>},
             {"manual"}, {TRUE}, {TRUE})

\* The call returns: its writes are committed, or a user error rolls them
\* all back. Calls that would outgrow the bounds are not taken.
Commit(d) ==
    /\ UNCHANGED cost_vars
    /\ Len(d.purchase) <= MaxPurchases
    /\ Len(d.invoice) <= MaxInvoices
    /\ Len(d.move) <= MaxMoves
    /\ IF d.error = ""
       THEN /\ purchase' = d.purchase
            /\ invoice' = d.invoice
            /\ move' = d.move
            /\ shipment_return' = d.shipment_return
            /\ sequence' = d.sequence
       ELSE UNCHANGED <<purchase, invoice, move, shipment_return, sequence>>

Cancel == \E ps \in Batches :
    Commit(CancelOp(Cur, ps)) /\ UNCHANGED wizard

Draft == \E ps \in Batches :
    Commit(DraftOp(Cur, ps)) /\ UNCHANGED wizard

Quote == \E ps \in Batches :
    Commit(QuoteOp(Cur, ps)) /\ UNCHANGED wizard

Confirm == \E ps \in Batches :
    Commit(ConfirmOp(Cur, ps)) /\ UNCHANGED wizard

ProcessCall == \E ps \in Batches :
    Commit(Process(Cur, ps)) /\ UNCHANGED wizard

Delete == \E ps \in Batches :
    /\ wizard.active_id \notin Range(ps)
    /\ Commit(DeleteOp(Cur, ps))
    /\ UNCHANGED wizard

Copy == \E ps \in Batches :
    Commit(CopyOp(Cur, ps)) /\ UNCHANGED wizard

\* The lines of a draft purchase are edited on its form: the quantity of a
\* line of type 'line' is changed.
EditLine == \E p \in Existing :
    \E i \in DOMAIN purchase[p].lines, q \in Quantities :
        /\ purchase[p].state = "draft"
        /\ purchase[p].lines[i].type = "line"
        /\ purchase[p].lines[i].quantity # q
        /\ Commit([Cur EXCEPT !.purchase[p].lines[i].quantity = q])
        /\ UNCHANGED wizard

\* The button handle_invoice_exception opens the wizard on its ask state.
InvoiceAsk == \E p \in Existing :
    /\ wizard.kind = "none"
    /\ ~(purchase[p].invoice_state # "exception"
            \/ purchase[p].state = "cancel")
    /\ wizard' = [kind |-> "invoice", active_id |-> p,
                  domain |-> InvoiceDefaultAsk(Cur, p)]
    /\ UNCHANGED <<purchase, invoice, move, shipment_return, sequence,
                   cost_vars>>

ShipmentAsk == \E p \in Existing :
    /\ wizard.kind = "none"
    /\ ~(purchase[p].shipment_state # "exception"
            \/ purchase[p].state = "cancel")
    /\ wizard' = [kind |-> "shipment", active_id |-> p,
                  domain |-> ShipmentDefaultAsk(Cur, p)]
    /\ UNCHANGED <<purchase, invoice, move, shipment_return, sequence,
                   cost_vars>>

\* Button 'Ok' of the ask view: the operator's selection is handled.
InvoiceHandleCall == \E to_recreate \in SUBSET wizard.domain :
    /\ wizard.kind = "invoice"
    /\ Commit(InvoiceHandle(Cur, wizard.active_id, to_recreate,
                            wizard.domain))
    /\ wizard' = NoWizard

ShipmentHandleCall == \E to_recreate \in SUBSET wizard.domain :
    /\ wizard.kind = "shipment"
    /\ Commit(ShipmentHandle(Cur, wizard.active_id, to_recreate,
                             wizard.domain))
    /\ wizard' = NoWizard

\* Button 'Cancel' of the ask view.
WizardEnd ==
    /\ wizard.kind # "none"
    /\ wizard' = NoWizard
    /\ UNCHANGED <<purchase, invoice, move, shipment_return, sequence,
                   cost_vars>>

\* The account and stock modules move invoices and stock moves on.
SetInvoice(i, state) ==
    /\ invoice[i].state = "draft"
    /\ invoice' = [invoice EXCEPT ![i].state = state]
    /\ UNCHANGED <<purchase, move, shipment_return, sequence, wizard,
                   cost_vars>>

InvoicePaid == \E i \in DOMAIN invoice : SetInvoice(i, "paid")

InvoiceCancel == \E i \in DOMAIN invoice : SetInvoice(i, "cancel")

SetMove(m, state) ==
    /\ move[m].state = "draft"
    /\ move' = [move EXCEPT ![m].state = state]
    /\ UNCHANGED <<purchase, invoice, shipment_return, sequence, wizard,
                   cost_vars>>

MoveDone == \E m \in DOMAIN move : SetMove(m, "done")

MoveCancel == \E m \in DOMAIN move : SetMove(m, "cancel")

Next ==
    \/ Cancel
    \/ Draft
    \/ Quote
    \/ Confirm
    \/ ProcessCall
    \/ Delete
    \/ InvoiceAsk
    \/ ShipmentAsk
    \/ InvoiceHandleCall
    \/ ShipmentHandleCall
    \/ WizardEnd
    \/ InvoicePaid
    \/ InvoiceCancel
    \/ MoveDone
    \/ MoveCancel

\* One purchase with fixed lines, through its whole life.
Spec == Init /\ [][Next]_vars

NextCopy ==
    \/ Cancel
    \/ Draft
    \/ Quote
    \/ Confirm
    \/ ProcessCall
    \/ Delete
    \/ Copy
    \/ InvoiceAsk
    \/ InvoiceHandleCall
    \/ WizardEnd
    \/ InvoicePaid
    \/ InvoiceCancel

\* A purchase and its copies.
SpecCopy == InitCopy /\ [][NextCopy]_vars

NextAmounts ==
    \/ Cancel
    \/ Draft
    \/ Quote
    \/ Confirm
    \/ ProcessCall
    \/ Delete
    \/ EditLine
    \/ ShipmentAsk
    \/ ShipmentHandleCall
    \/ WizardEnd
    \/ MoveDone
    \/ MoveCancel

\* A purchase whose lines are edited between two cancellations or before
\* its confirmation.
SpecAmounts == InitAmounts /\ [][NextAmounts]_vars

\* The lines of a purchase are edited and the purchase is quoted and set
\* back to draft.
NextLines == EditLine \/ Quote \/ Draft

SpecLines == InitLines /\ [][NextLines]_vars

\* Two purchases are quoted, cancelled and set back to draft, alone or in
\* one call.
NextBatch == Quote \/ Draft \/ Cancel

SpecBatch == InitBatch /\ [][NextBatch]_vars

\* -------------------------------------------------------- the cost history
\* FLOOR(LOG(n)) + 1: the number of decimal digits of n >= 1.
RECURSIVE Digits(_)
Digits(n) == IF n < 10 THEN 1 ELSE 1 + Digits(n \div 10)

RECURSIVE Power10(_)
Power10(k) == IF k = 0 THEN 1 ELSE 10 * Power10(k - 1)

\* SELECT MAX(id) FROM ir_property
MaxId(ids) == CHOOSE n \in ids : \A m \in ids : m <= n

\* The id column of the query for the history row <<date, id>>.
CostHistoryId(row, ids) == row[1] * Power10(Digits(MaxId(ids))) + row[2]

\* ProductCostHistory.table_query: one row for each group of history rows.
TableQueryRows(history, ids) ==
    {[id |-> CostHistoryId(row, ids), date |-> row[1]] : row \in history}

\* The rows a history table can hold.
HistoryRows == (0 .. MaxEpoch) \X (1 .. MaxPropertyId)

\* The property table holds the ids up to some id; the history holds one or
\* two rows, of these properties or of properties that are deleted since.
InitHistory ==
    /\ purchase = <<>>
    /\ invoice = <<>>
    /\ move = <<>>
    /\ shipment_return = 0
    /\ sequence = 0
    /\ wizard = NoWizard
    /\ \E n \in 1 .. MaxPropertyId : ir_property = 1 .. n
    /\ \E a, b \in HistoryRows : ir_property_history = {a, b}
    /\ cost_history = {}

\* The cost history is read.
TableQuery ==
    /\ cost_history = {}
    /\ cost_history' = TableQueryRows(ir_property_history, ir_property)
    /\ UNCHANGED <<purchase, invoice, move, shipment_return, sequence, wizard,
                   ir_property, ir_property_history>>

NextHistory == TableQuery

\* The history of the cost prices is read from the property tables.
SpecHistory == InitHistory /\ [][NextHistory]_vars

\* ============================================================= properties
\* The objects process can create.
Objects(d) == <<d.invoice, d.move, d.shipment_return>>

\* The amounts stored in the cache fields of a purchase.
CachedAmounts(pr) ==
    <<pr.untaxed_amount_cache, pr.tax_amount_cache, pr.total_amount_cache>>

\* The cache fields a snapshot of the current lines would hold.
LiveSnapshot(pr) ==
    <<Some(LiveAmounts(pr).untaxed_amount), Some(LiveAmounts(pr).tax_amount),
      Some(LiveAmounts(pr).total_amount)>>

\* ---------------------------------------------------------------------- C1
\* The invoice state the specification gives for a set of active invoices.
C1_Expected(d, p) ==
    LET pr == d.purchase[p]
        active == pr.invoices \ (pr.invoices_ignored \cup pr.invoices_recreated)
    IN IF active = {} THEN "none"
       ELSE IF \E i \in active : d.invoice[i].state = "cancel"
            THEN "exception"
            ELSE IF \A i \in active : d.invoice[i].state = "paid"
                 THEN "paid"
                 ELSE "waiting"

\* C1: get_invoice_state over the active invoices (linked, neither ignored
\* nor recreated) is 'none' without any, 'exception' if one is cancelled,
\* 'paid' if all are paid and 'waiting' otherwise; the state of an ignored
\* or recreated invoice never changes the result.
C1_InvoiceState ==
    \A p \in Existing :
        /\ GetInvoiceState(Cur, p) = C1_Expected(Cur, p)
        /\ \A i \in (purchase[p].invoices_ignored
                        \cup purchase[p].invoices_recreated) \cap DOMAIN invoice :
              \A s \in {"draft", "paid", "cancel"} :
                 GetInvoiceState([Cur EXCEPT !.invoice[i].state = s], p)
                    = GetInvoiceState(Cur, p)

\* A purchase with a recreated cancelled invoice beside a paid active one:
\* its invoice state is 'paid'.
C1_Witness ==
    \E p \in Existing :
        /\ purchase[p].invoices_recreated # {}
        /\ ActiveInvoices(purchase[p]) # {}
        /\ GetInvoiceState(Cur, p) = "paid"
        /\ purchase[p].invoice_state = "paid"

C3_Classification ==
    \A p \in Existing :
        LET pr == purchase[p]
        IN /\ pr.invoices_ignored \cap pr.invoices_recreated = {}
           /\ pr.invoices_ignored \subseteq pr.invoices
           /\ pr.invoices_recreated \subseteq pr.invoices
           /\ \A i \in DOMAIN pr.lines :
                 /\ pr.lines[i].moves_ignored
                        \cap pr.lines[i].moves_recreated = {}
                 /\ pr.lines[i].moves_ignored \subseteq LineMoves(Cur, p, i)
                 /\ pr.lines[i].moves_recreated \subseteq LineMoves(Cur, p, i)

\* ---------------------------------------------------------------------- C4
\* The outcome of the wizard that is open, run with the given selection.
HandleOpen(to_recreate) ==
    IF wizard.kind = "invoice"
    THEN InvoiceHandle(Cur, wizard.active_id, to_recreate, wizard.domain)
    ELSE ShipmentHandle(Cur, wizard.active_id, to_recreate, wizard.domain)

\* The objects of purchase p that are ignored, and those recreated.
IgnoredOf(d, p) ==
    <<d.purchase[p].invoices_ignored,
      [i \in DOMAIN d.purchase[p].lines |-> d.purchase[p].lines[i].moves_ignored]>>

RecreatedOf(d, p) ==
    <<d.purchase[p].invoices_recreated,
      [i \in DOMAIN d.purchase[p].lines |-> d.purchase[p].lines[i].moves_recreated]>>

\* The cancelled objects of purchase p that are neither ignored nor
\* recreated.
Outstanding(d, p) ==
    <<InvoiceDefaultAsk(d, p), ShipmentDefaultAsk(d, p)>>

\* The records with nothing ignored and nothing recreated.
NothingClassified ==
    [Cur EXCEPT !.purchase =
        [q \in DOMAIN @ |->
            [@[q] EXCEPT !.invoices_ignored = {},
                         !.invoices_recreated = {},
                         !.lines = [i \in DOMAIN @ |-> LineCopy(@[i])]]]]

\* C4 as stated: a wizard run with an empty selection leaves no outstanding
\* exceptioned object, recreates none, and neither its process() nor a later
\* one creates an invoice, an invoice line, a move or a return shipment (the
\* later one taken on a purchase with ignored objects and none recreated).
C4_Original ==
    /\ \A q \in Existing :
          (/\ IgnoredOf(Cur, q) # IgnoredOf(NothingClassified, q)
           /\ RecreatedOf(Cur, q) = RecreatedOf(NothingClassified, q))
             => Objects(Process(Cur, <<q>>)) = Objects(Cur)
    /\ wizard.kind # "none" =>
        LET p == wizard.active_id
            r == HandleOpen({})
        IN /\ IF wizard.kind = "invoice"
              THEN InvoiceDefaultAsk(r, p) = {}
              ELSE ShipmentDefaultAsk(r, p) = {}
           /\ RecreatedOf(r, p) = RecreatedOf(Cur, p)
           /\ Objects(r) = Objects(Cur)
           /\ Objects(Process(r, <<p>>)) = Objects(r)

\* C4: a wizard run with an empty selection adds every exceptioned object
\* its ask step presented to the ignored set and none to the recreated set;
\* the process() call that follows creates exactly what process() creates
\* without the wizard run, and a process() call repeated at once creates
\* nothing.
C4_EmptySelection ==
    wizard.kind # "none" =>
        LET p == wizard.active_id
            r == HandleOpen({})
        IN /\ IF wizard.kind = "invoice"
              THEN /\ InvoiceDefaultAsk(Cur, p) \cap wizard.domain
                        \subseteq r.purchase[p].invoices_ignored
                   /\ r.purchase[p].invoices_ignored
                        \subseteq purchase[p].invoices_ignored \cup wizard.domain
              ELSE /\ ShipmentDefaultAsk(Cur, p) \cap wizard.domain
                        \subseteq UNION {r.purchase[p].lines[i].moves_ignored :
                                            i \in DOMAIN r.purchase[p].lines}
                   /\ \A i \in DOMAIN r.purchase[p].lines :
                         r.purchase[p].lines[i].moves_ignored
                            \subseteq purchase[p].lines[i].moves_ignored
                                        \cup wizard.domain
           /\ RecreatedOf(r, p) = RecreatedOf(Cur, p)
           /\ Objects(r) = Objects(Process(Cur, <<p>>))
           /\ Objects(Process(r, <<p>>)) = Objects(r)

\* A cancelled move has been ignored and none recreated, with the wizard
\* closed and every move of the purchase still the one created first.
C4_Witness ==
    /\ wizard.kind = "none"
    /\ \E p \in Existing :
          /\ \E i \in DOMAIN purchase[p].lines :
                purchase[p].lines[i].moves_ignored # {}
          /\ \A i \in DOMAIN purchase[p].lines :
                purchase[p].lines[i].moves_recreated = {}
          /\ purchase[p].shipment_state # "exception"

\* ---------------------------------------------------------------------- C5
\* C5: process is idempotent: it leaves a purchase in done or cancel as it
\* is, processing a batch twice gives what processing it once gives, and
\* confirming again a purchase that confirm left confirmed changes nothing.
C5_Idempotent ==
    /\ \A p \in Existing :
          ProcessSkips(purchase[p]) => Process(Cur, <<p>>) = Cur
    /\ \A ps \in Batches :
          /\ Process(Process(Cur, ps), ps) = Process(Cur, ps)
          /\ ConfirmOp(ConfirmOp(Cur, ps), ps) = ConfirmOp(Cur, ps)

\* A confirmed purchase for which process has created an invoice and a move
\* and now creates nothing more.
C5_Witness ==
    \E p \in Existing :
        /\ purchase[p].state = "confirmed"
        /\ purchase[p].invoices # {}
        /\ PurchaseMoves(Cur, p) # {}
        /\ Process(Cur, <<p>>) = Cur

\* ---------------------------------------------------------------------- C6
\* The condition the specification gives for a purchase to be done.
C6_Condition(pr) ==
    /\ pr.invoice_state = "paid" \/ pr.invoice_method = "manual"
    /\ pr.shipment_state = "received"

\* C6: process marks a purchase done exactly when, after it has refreshed
\* the two states, the invoice state is 'paid' or the invoice method is
\* 'manual', and the shipment state is 'received'; every done purchase
\* satisfies that condition.
C6_Done ==
    \A p \in Existing :
        /\ ~ProcessSkips(purchase[p]) =>
              ((Process(Cur, <<p>>).purchase[p].state = "done")
                  <=> C6_Condition(ProcessSteps(Cur, p).purchase[p]))
        /\ purchase[p].state = "done" => C6_Condition(purchase[p])

\* A purchase invoiced on order that is done.
C6_Witness ==
    \E p \in Existing :
        /\ purchase[p].state = "done"
        /\ purchase[p].invoice_method = "order"
        /\ purchase[p].invoice_state = "paid"

\* ---------------------------------------------------------------------- C7
\* The state changes the specification allows.
C7_Edges ==
    {<<"draft", "quotation">>, <<"quotation", "confirmed">>,
     <<"draft", "cancel">>, <<"quotation", "cancel">>,
     <<"quotation", "draft">>, <<"cancel", "draft">>,
     <<"confirmed", "done">>}

\* C7: the state of a purchase changes only along draft->quotation,
\* quotation->confirmed, draft/quotation->cancel, quotation/cancel->draft
\* and confirmed->done; done is entered from confirmed only.
C7_Transitions ==
    [][\A p \in Existing :
          (purchase'[p].exists /\ purchase'[p].state # purchase[p].state)
             => <<purchase[p].state, purchase'[p].state>> \in C7_Edges]_vars

\* ---------------------------------------------------------------------- C8
\* The purchases whose reference is assigned by the step.
C8_Assigned ==
    {p \in Existing : /\ purchase'[p].exists
                      /\ purchase[p].reference = 0
                      /\ purchase'[p].reference # 0}

\* C8: a purchase is created in draft with an empty reference and invoice
\* and shipment state 'none'; its reference is assigned once, by the first
\* quote that succeeds, and then never changes, and a sequence number is
\* consumed only when a reference is assigned.
C8_Reference ==
    /\ \A p \in DOMAIN purchase :
          /\ purchase[p].state = "draft"
          /\ purchase[p].reference = 0
          /\ purchase[p].invoice_state = "none"
          /\ purchase[p].shipment_state = "none"
    /\ [][/\ \A p \in Existing :
                purchase'[p].exists =>
                   /\ purchase[p].reference # 0 =>
                         purchase'[p].reference = purchase[p].reference
                   /\ p \in C8_Assigned =>
                         /\ purchase[p].state = "draft"
                         /\ purchase'[p].state = "quotation"
                         /\ purchase'[p].reference \in sequence + 1 .. sequence'
                   /\ (/\ purchase[p].state = "draft"
                       /\ purchase'[p].state = "quotation") =>
                         purchase'[p].reference # 0
          /\ \A p, q \in C8_Assigned :
                purchase'[p].reference = purchase'[q].reference => p = q
          /\ sequence' = sequence + Cardinality(C8_Assigned)]_vars

\* A purchase quoted a second time, after a cancel, beside another purchase
\* that has a reference too: two sequence numbers have been consumed.
C8_Witness ==
    /\ sequence = 2
    /\ \E p \in Existing :
          /\ purchase[p].state = "quotation"
          /\ purchase[p].reference # 0
          /\ purchase[p].total_amount_cache # None
    /\ \A p \in Existing : purchase[p].reference # 0

\* ---------------------------------------------------------------------- C9
\* C9: the total amount is the untaxed amount plus the tax amount, for the
\* amounts get_amount returns and for those on_change_lines returns.
C9_Total ==
    \A p \in Existing :
        /\ GetAmount(purchase[p]).total_amount
              = GetAmount(purchase[p]).untaxed_amount
                  + GetAmount(purchase[p]).tax_amount
        /\ \A currency \in BOOLEAN :
              LET r == OnChangeLines(purchase[p].lines, currency)
              IN r.total_amount = r.untaxed_amount + r.tax_amount

\* A purchase whose amounts come from the cache and differ from those of
\* its lines, with a tax amount.
C9_Witness ==
    \E p \in Existing :
        /\ UsesCache(purchase[p])
        /\ GetAmount(purchase[p]) # LiveAmounts(purchase[p])
        /\ GetAmount(purchase[p]).tax_amount # 0

\* --------------------------------------------------------------------- C10
\* C10: whenever a purchase enters cancel or confirmed, its three cache
\* fields hold the amounts computed from its lines at that moment.
C10_Snapshot ==
    [][\A p \in Existing :
          (/\ purchase'[p].exists
           /\ purchase'[p].state # purchase[p].state
           /\ purchase'[p].state \in {"cancel", "confirmed"})
             => CachedAmounts(purchase'[p]) = LiveSnapshot(purchase'[p])]_vars

\* --------------------------------------------------------------------- C11
\* The amounts of a list of lines, computed from the lines.
C11_Recomputed(lines) ==
    [untaxed_amount |-> LinesUntaxed(lines),
     tax_amount |-> GetTaxAmount(lines),
     total_amount |-> LinesUntaxed(lines) + GetTaxAmount(lines)]

\* The lines of a purchase after any edit of one quantity.
C11_EditedLines(pr) ==
    {[pr.lines EXCEPT ![i].quantity = q] :
        i \in {k \in DOMAIN pr.lines : pr.lines[k].type = "line"},
        q \in Quantities}

\* C11: in draft and quotation the reported amounts are recomputed from the
\* current lines, whatever the cache fields hold; in confirmed, done and
\* cancel with the three cache fields set they are the cached values and do
\* not change when the lines change.
C11_Reported ==
    \A p \in Existing :
        LET pr == purchase[p]
        IN /\ pr.state \in {"draft", "quotation"} =>
                 /\ GetAmount(pr) = C11_Recomputed(pr.lines)
                 /\ \A lines \in C11_EditedLines(pr) :
                       GetAmount([pr EXCEPT !.lines = lines])
                          = C11_Recomputed(lines)
           /\ (/\ pr.state \in {"confirmed", "done", "cancel"}
               /\ pr.untaxed_amount_cache # None
               /\ pr.tax_amount_cache # None
               /\ pr.total_amount_cache # None) =>
                 \A lines \in C11_EditedLines(pr) \cup {pr.lines} :
                    GetAmount([pr EXCEPT !.lines = lines])
                       = [untaxed_amount |-> pr.untaxed_amount_cache[1],
                          tax_amount |-> pr.tax_amount_cache[1],
                          total_amount |-> pr.total_amount_cache[1]]

\* A draft purchase whose cache fields hold the amounts of an earlier
\* cancellation, which are not those of its current lines.
C11_Witness ==
    \E p \in Existing :
        /\ purchase[p].state = "draft"
        /\ purchase[p].total_amount_cache # None
        /\ purchase[p].total_amount_cache[1]
              # C11_Recomputed(purchase[p].lines).total_amount

\* --------------------------------------------------------------------- C12
\* The position of the subtotal line before position i, 0 if there is none.
C12_Previous(lines, i) ==
    LET before == {k \in 1 .. i - 1 : lines[k].type = "subtotal"}
    IN IF before = {} THEN 0
       ELSE CHOOSE k \in before : \A j \in before : j <= k

\* The sum of the rounded amounts of the lines of type 'line' between the
\* previous subtotal and position i.
C12_Expected(lines, i) ==
    SumSeq([k \in DOMAIN lines |->
                IF /\ k > C12_Previous(lines, i)
                   /\ k < i
                   /\ lines[k].type = "line"
                THEN CurrencyRound(lines[k].quantity * lines[k].unit_price)
                ELSE 0])

\* C12: the amount of a subtotal line is the sum of the rounded amounts of
\* the lines of type 'line' after the previous subtotal line (or from the
\* start) and before it; other lines contribute nothing.
C12_Subtotal ==
    \A p \in Existing :
        \A i \in DOMAIN purchase[p].lines :
            purchase[p].lines[i].type = "subtotal" =>
                LineGetAmount(purchase[p].lines, i)
                    = C12_Expected(purchase[p].lines, i)

\* A purchase with lines before, between and after two subtotal lines, a
\* title or comment among them, and two different subtotals.
C12_Witness ==
    \E p \in Existing :
        LET lines == purchase[p].lines
        IN \E i, j \in DOMAIN lines :
              /\ i < j
              /\ lines[i].type = "subtotal"
              /\ lines[j].type = "subtotal"
              /\ \E k \in 1 .. i - 1 : lines[k].type = "line"
              /\ \E k \in i + 1 .. j - 1 : lines[k].type = "line"
              /\ \E k \in j + 1 .. Len(lines) : lines[k].type = "line"
              /\ LineGetAmount(lines, i) # LineGetAmount(lines, j)
              /\ LineGetAmount(lines, j) # 0

\* --------------------------------------------------------------------- C13
\* The invoice lines of line i of purchase p in records r that are not in
\* records d: the ones a call has created.
C13_NewLines(d, r, p, i) ==
    {x \in LineInvoiceLines(r, p, i) : x[1] \notin DOMAIN d.invoice}

RECURSIVE C13_Quantity(_, _)
C13_Quantity(d, S) ==
    IF S = {} THEN 0
    ELSE LET x == CHOOSE y \in S : TRUE
         IN d.invoice[x[1]].lines[x[2]].quantity + C13_Quantity(d, S \ {x})

\* What is already invoiced for line i on invoices that are not recreated.
C13_Invoiced(d, p, i) ==
    C13_Quantity(d, {x \in LineInvoiceLines(d, p, i) :
                        /\ x[1] \notin d.purchase[p].invoices_recreated
                        /\ d.invoice[x[1]].lines[x[2]].type = "line"})

\* The quantity of the moves of line i that are done.
C13_Received(d, p, i) ==
    LET done == {m \in DOMAIN d.move : /\ d.move[m].origin = <<p, i>>
                                       /\ d.move[m].state = "done"}
    IN SumSeq([m \in DOMAIN d.move |->
                  IF m \in done THEN d.move[m].quantity ELSE 0])

C13_Positive(x) == IF x > 0 THEN x ELSE 0

\* The records a process of purchase p gives from the current ones, called
\* alone or at the end of confirm.
C13_Processed(p) ==
    {Process(Cur, <<p>>)}
        \cup (IF purchase[p].state = "quotation"
              THEN {ConfirmOp(Cur, <<p>>)} ELSE {})

\* process honours the invoice method; with byMoves(l) telling the lines
\* that 'shipment' invoices by their done moves.
C13_Honours(byMoves(_)) ==
    \A p \in Existing : \A r \in C13_Processed(p) :
        LET pr == purchase[p]
        IN /\ (pr.invoice_method = "manual" \/ ProcessSkips(pr)) =>
                 r.invoice = invoice
           /\ ~ProcessSkips(pr) =>
                 \A i \in DOMAIN pr.lines :
                    pr.lines[i].type = "line" =>
                       C13_Quantity(r, C13_NewLines(Cur, r, p, i))
                          = IF pr.invoice_method = "manual" THEN 0
                            ELSE IF /\ pr.invoice_method = "shipment"
                                    /\ byMoves(pr.lines[i])
                                 THEN C13_Positive(C13_Received(Cur, p, i)
                                                    - C13_Invoiced(Cur, p, i))
                                 ELSE C13_Positive(Abs(pr.lines[i].quantity)
                                                    - C13_Invoiced(Cur, p, i))

C13_AnyLine(l) == TRUE

C13_GoodsLine(l) == l.product = "goods"

\* C13 as stated: with 'manual' no invoice is created, with 'order' a line
\* is invoiced for its ordered quantity less what is invoiced, and with
\* 'shipment' every line is invoiced for the quantity of its done moves
\* less what is invoiced.
C13_Original == C13_Honours(C13_AnyLine)

\* C13: with 'manual' no invoice is created; with 'order' a line is
\* invoiced for its ordered quantity less what is invoiced on invoices that
\* are not recreated; with 'shipment' a line with a goods product is
\* invoiced for the quantity of its done moves less what is invoiced, and a
\* line with a service product or without product is invoiced as with
\* 'order'.
C13_InvoiceMethod == C13_Honours(C13_GoodsLine)

\* A purchase invoiced on shipment with a goods line invoiced for its done
\* move.
C13_Witness ==
    \E p \in Existing :
        /\ purchase[p].invoice_method = "shipment"
        /\ \E i \in DOMAIN purchase[p].lines :
              /\ purchase[p].lines[i].product = "goods"
              /\ LineInvoiceLines(Cur, p, i) # {}
              /\ C13_Received(Cur, p, i) > 0

\* --------------------------------------------------------------------- C14
\* Line i of purchase p has a cancelled move that is neither ignored nor
\* recreated.
C14_Exception(p, i) ==
    \E m \in DOMAIN move :
        /\ move[m].origin = <<p, i>>
        /\ move[m].state = "cancel"
        /\ m \notin purchase[p].lines[i].moves_ignored
        /\ m \notin purchase[p].lines[i].moves_recreated

\* C14: get_shipment_state is 'none' for a purchase without move; otherwise
\* 'exception' if a line has a cancelled move that is neither ignored nor
\* recreated, whatever the other lines; otherwise 'received' if every line
\* has move_done; otherwise 'waiting'.
C14_ShipmentState ==
    \A p \in Existing :
        LET lines == purchase[p].lines
        IN GetShipmentState(Cur, p)
             = IF ~\E m \in DOMAIN move : move[m].origin[1] = p
               THEN "none"
               ELSE IF \E i \in DOMAIN lines : C14_Exception(p, i)
                    THEN "exception"
                    ELSE IF \A i \in DOMAIN lines : GetMoveDone(Cur, p, i)
                         THEN "received"
                         ELSE "waiting"

\* A purchase with a line fully received and another line with a cancelled
\* move: its shipment state is 'exception'.
C14_Witness ==
    \E p \in Existing :
        /\ \E i \in DOMAIN purchase[p].lines :
              /\ GetMoveDone(Cur, p, i)
              /\ \E m \in LineMoves(Cur, p, i) : move[m].state = "done"
        /\ \E i \in DOMAIN purchase[p].lines : C14_Exception(p, i)
        /\ purchase[p].shipment_state = "exception"
        /\ GetShipmentState(Cur, p) = "exception"

\* --------------------------------------------------------------------- C15
\* The summed quantity of the moves of line i of purchase p among S.
C15_Quantity(p, i, S) ==
    SumSeq([m \in DOMAIN move |->
               IF m \in S /\ move[m].origin = <<p, i>>
               THEN move[m].quantity ELSE 0])

C15_Done == {m \in DOMAIN move : move[m].state = "done"}

C15_Skipped(p, i) ==
    purchase[p].lines[i].moves_ignored \cup purchase[p].lines[i].moves_recreated

C15_GoodsLines(p) ==
    {i \in DOMAIN purchase[p].lines : purchase[p].lines[i].product = "goods"}

\* C15 as stated: for a line with a goods product move_done is true exactly
\* when the quantity of its done moves is at least the ordered quantity.
C15_Original ==
    \A p \in Existing : \A i \in C15_GoodsLines(p) :
        GetMoveDone(Cur, p, i)
            <=> C15_Quantity(p, i, C15_Done) >= purchase[p].lines[i].quantity

\* C15: for a line with a goods product move_done is true exactly when each
\* of its moves is done, ignored or recreated, and the quantity of its done
\* moves and of its ignored and recreated moves is at least the quantity of
\* the line (negative on a return line).
C15_MoveDone ==
    \A p \in Existing : \A i \in C15_GoodsLines(p) :
        GetMoveDone(Cur, p, i)
            <=> /\ \A m \in DOMAIN move :
                      move[m].origin = <<p, i>> =>
                         m \in C15_Done \cup C15_Skipped(p, i)
                /\ C15_Quantity(p, i, C15_Done \cup C15_Skipped(p, i))
                      >= purchase[p].lines[i].quantity

\* A goods line whose only move was cancelled and ignored: no quantity is
\* received and move_done is true.
C15_Witness ==
    \E p \in Existing : \E i \in C15_GoodsLines(p) :
        /\ purchase[p].lines[i].quantity > 0
        /\ purchase[p].lines[i].moves_ignored # {}
        /\ C15_Quantity(p, i, C15_Done) = 0
        /\ GetMoveDone(Cur, p, i)

\* --------------------------------------------------------------------- C16
\* Object x is in one set of the records r as the handle step must leave
\* it: `fresh` tells an object of the domain that is linked and not yet
\* classified.
C16_Placed(x, fresh, selected, ignored, recreated, ignored2, recreated2) ==
    IF fresh
    THEN IF selected
         THEN x \in recreated2 /\ x \notin ignored2
         ELSE x \in ignored2 /\ x \notin recreated2
    ELSE /\ x \in ignored2 <=> x \in ignored
         /\ x \in recreated2 <=> x \in recreated

C16_Invoices(p, to_recreate, domain_invoices) ==
    LET pr == purchase[p]
        r == InvoiceHandle(Cur, p, to_recreate, domain_invoices)
        written == [Cur EXCEPT
                      !.purchase[p].invoices_ignored =
                          r.purchase[p].invoices_ignored,
                      !.purchase[p].invoices_recreated =
                          r.purchase[p].invoices_recreated]
    IN /\ \A x \in DOMAIN r.invoice :
             C16_Placed(x,
                        /\ x \in domain_invoices
                        /\ x \in pr.invoices
                        /\ x \notin pr.invoices_ignored
                        /\ x \notin pr.invoices_recreated,
                        x \in to_recreate,
                        pr.invoices_ignored, pr.invoices_recreated,
                        r.purchase[p].invoices_ignored,
                        r.purchase[p].invoices_recreated)
       /\ domain_invoices = wizard.domain => r = Process(written, <<p>>)

C16_Moves(p, to_recreate, domain_moves) ==
    LET pr == purchase[p]
        r == ShipmentHandle(Cur, p, to_recreate, domain_moves)
        written == [Cur EXCEPT !.purchase[p].lines =
                      [i \in DOMAIN @ |->
                          [@[i] EXCEPT
                              !.moves_ignored =
                                  r.purchase[p].lines[i].moves_ignored,
                              !.moves_recreated =
                                  r.purchase[p].lines[i].moves_recreated]]]
    IN /\ \A i \in DOMAIN pr.lines : \A x \in DOMAIN r.move :
             C16_Placed(x,
                        /\ x \in domain_moves
                        /\ x \in DOMAIN move
                        /\ r.move[x].origin = <<p, i>>
                        /\ x \notin pr.lines[i].moves_ignored
                        /\ x \notin pr.lines[i].moves_recreated,
                        x \in to_recreate,
                        pr.lines[i].moves_ignored, pr.lines[i].moves_recreated,
                        r.purchase[p].lines[i].moves_ignored,
                        r.purchase[p].lines[i].moves_recreated)
       /\ domain_moves = wizard.domain => r = Process(written, <<p>>)

\* C16: the handle step of both wizards puts every object of the domain
\* that is linked to the purchase and not yet classified in exactly one
\* set, the recreated one if it is selected and the ignored one otherwise;
\* every other object keeps its classification; process runs on the
\* records with both sets written. The domain and the selection are any
\* the ask view can send back; the last part is taken for the domain the
\* ask step presented.
C16_Partition ==
    /\ wizard.kind = "invoice" =>
          \A domain_invoices \in SUBSET DOMAIN invoice :
             \A to_recreate \in SUBSET domain_invoices :
                C16_Invoices(wizard.active_id, to_recreate, domain_invoices)
    /\ wizard.kind = "shipment" =>
          \A domain_moves \in SUBSET DOMAIN move :
             \A to_recreate \in SUBSET domain_moves :
                C16_Moves(wizard.active_id, to_recreate, domain_moves)

\* A purchase with an invoice recreated by one run of the wizard and an
\* invoice ignored by another.
C16_Witness ==
    /\ wizard.kind = "none"
    /\ \E p \in Existing :
          /\ purchase[p].invoices_ignored # {}
          /\ purchase[p].invoices_recreated # {}

\* --------------------------------------------------------------------- C17
\* The cancelled invoices of purchase p that are not classified.
C17_Invoices(p) ==
    {i \in DOMAIN invoice :
        /\ i \in purchase[p].invoices
        /\ invoice[i].state = "cancel"
        /\ i \notin purchase[p].invoices_ignored
        /\ i \notin purchase[p].invoices_recreated}

\* The cancelled moves of the lines of purchase p that are not classified.
C17_Moves(p) ==
    {m \in DOMAIN move :
        /\ move[m].origin[1] = p
        /\ move[m].state = "cancel"
        /\ \A i \in DOMAIN purchase[p].lines :
              move[m].origin[2] = i =>
                 /\ m \notin purchase[p].lines[i].moves_ignored
                 /\ m \notin purchase[p].lines[i].moves_recreated}

\* C17: the ask step of each wizard presents exactly the cancelled linked
\* objects of the active purchase that are neither ignored nor recreated,
\* and an object once classified stays classified, so it is never
\* presented again.
C17_Ask ==
    [][/\ (wizard.kind = "none" /\ wizard'.kind = "invoice") =>
             wizard'.domain = C17_Invoices(wizard'.active_id)
       /\ (wizard.kind = "none" /\ wizard'.kind = "shipment") =>
             wizard'.domain = C17_Moves(wizard'.active_id)
       /\ \A p \in Existing :
             purchase'[p].exists =>
                /\ purchase[p].invoices_ignored
                      \subseteq purchase'[p].invoices_ignored
                /\ purchase[p].invoices_recreated
                      \subseteq purchase'[p].invoices_recreated
                /\ \A i \in DOMAIN purchase[p].lines :
                      /\ purchase[p].lines[i].moves_ignored
                            \subseteq purchase'[p].lines[i].moves_ignored
                      /\ purchase[p].lines[i].moves_recreated
                            \subseteq purchase'[p].lines[i].moves_recreated]_vars

\* The invoice wizard is open on a purchase with a cancelled invoice that
\* an earlier run recreated: it presents the other cancelled invoice only.
C17_Witness ==
    /\ wizard.kind = "invoice"
    /\ wizard.domain # {}
    /\ \E i \in purchase[wizard.active_id].invoices_recreated :
          /\ invoice[i].state = "cancel"
          /\ i \notin wizard.domain

\* --------------------------------------------------------------------- C18
\* C18: set_invoice_state and set_shipment_state issue no write and leave
\* the records as they are when the state they derive is the stored one;
\* otherwise they issue one write, of that one field.
C18_StatusWrites ==
    \A p \in Existing :
        /\ IF purchase[p].invoice_state = GetInvoiceState(Cur, p)
           THEN /\ SetInvoiceStateWrites(Cur, p) = <<>>
                /\ SetInvoiceState(Cur, p) = Cur
           ELSE /\ Len(SetInvoiceStateWrites(Cur, p)) = 1
                /\ DOMAIN SetInvoiceStateWrites(Cur, p)[1] = {"invoice_state"}
                /\ SetInvoiceState(Cur, p)
                      = [Cur EXCEPT !.purchase[p].invoice_state =
                                        GetInvoiceState(Cur, p)]
        /\ IF purchase[p].shipment_state = GetShipmentState(Cur, p)
           THEN /\ SetShipmentStateWrites(Cur, p) = <<>>
                /\ SetShipmentState(Cur, p) = Cur
           ELSE /\ Len(SetShipmentStateWrites(Cur, p)) = 1
                /\ DOMAIN SetShipmentStateWrites(Cur, p)[1] = {"shipment_state"}
                /\ SetShipmentState(Cur, p)
                      = [Cur EXCEPT !.purchase[p].shipment_state =
                                        GetShipmentState(Cur, p)]

\* A purchase whose stored invoice state is the derived one, set by an
\* earlier process, and whose stored shipment state is out of date.
C18_Witness ==
    \E p \in Existing :
        /\ purchase[p].invoice_state = GetInvoiceState(Cur, p)
        /\ purchase[p].invoice_state # "none"
        /\ purchase[p].shipment_state # GetShipmentState(Cur, p)

\* --------------------------------------------------------------------- C19
\* Purchase p cannot be quoted: it has no invoice address, or a goods line
\* to receive and no warehouse to receive it in.
C19_Fails(p) ==
    \/ ~purchase[p].invoice_address
    \/ /\ ~purchase[p].warehouse
       /\ \E i \in DOMAIN purchase[p].lines :
             /\ purchase[p].lines[i].product = "goods"
             /\ purchase[p].lines[i].quantity >= 0

\* C19: quote on a batch of draft purchases of which one has no invoice
\* address or no destination for a goods line raises the user error, and
\* no purchase of the batch gets a reference or leaves draft: a purchase
\* only leaves draft for quotation, or gets its reference, in a call of
\* quote on a batch without such a draft purchase.
C19_FailedQuote ==
    /\ [](\A ps \in Batches :
             (/\ \A k \in DOMAIN ps : purchase[ps[k]].state = "draft"
              /\ \E k \in DOMAIN ps : C19_Fails(ps[k]))
                => QuoteOp(Cur, ps).error
                      \in {"invoice_address_required", "warehouse_required"})
    /\ [][\A p \in Existing :
             (\/ purchase[p].state = "draft" /\ purchase'[p].state # "draft"
                    /\ purchase'[p].state # "cancel"
              \/ purchase[p].reference # purchase'[p].reference)
                => \E ps \in Batches :
                      /\ p \in Range(ps)
                      /\ \A k \in DOMAIN ps :
                            purchase[ps[k]].state = "draft"
                               => ~C19_Fails(ps[k])
                      /\ purchase' = QuoteOp(Cur, ps).purchase]_vars

\* A purchase that can be quoted has its reference and is a draft again,
\* beside a draft purchase that cannot be quoted: one sequence number has
\* been consumed and the second purchase has no reference.
C19_Witness ==
    \E p, q \in Existing :
        /\ purchase[p].state = "draft"
        /\ purchase[p].reference # 0
        /\ ~C19_Fails(p)
        /\ purchase[q].state = "draft"
        /\ purchase[q].reference = 0
        /\ C19_Fails(q)
        /\ sequence = 1

\* --------------------------------------------------------------------- C20
\* The records a process of purchase p gives from the current ones, called
\* alone or at the end of confirm.
C20_Processed(p) ==
    {Process(Cur, <<p>>)}
        \cup (IF purchase[p].state = "quotation"
              THEN {ConfirmOp(Cur, <<p>>)} ELSE {})

\* The lines of purchase p that are not of type 'line'.
C20_OtherLines(p) ==
    {i \in DOMAIN purchase[p].lines : purchase[p].lines[i].type # "line"}

\* The moves and the invoice lines of line i of purchase p that records r
\* have and the current ones do not.
C20_NewMoves(r, p, i) ==
    {m \in DOMAIN r.move : m \notin DOMAIN move /\ r.move[m].origin = <<p, i>>}

C20_NewInvoiceLines(r, p, i) ==
    {x \in LineInvoiceLines(r, p, i) : x[1] \notin DOMAIN invoice}

\* C20 as stated: process creates no stock move and no invoice line whose
\* origin is a subtotal, title or comment line.
C20_Original ==
    \A p \in Existing : \A r \in C20_Processed(p) :
        \A i \in C20_OtherLines(p) :
            /\ C20_NewMoves(r, p, i) = {}
            /\ C20_NewInvoiceLines(r, p, i) = {}

\* C20: process creates no stock move whose origin is a subtotal, title or
\* comment line, and no invoice line with such an origin unless the invoice
\* method is 'order' and the line has no invoice line yet: then it creates
\* at most one, of the type of the line and without quantity.
C20_Linkage ==
    \A p \in Existing : \A r \in C20_Processed(p) :
        \A i \in C20_OtherLines(p) :
            /\ C20_NewMoves(r, p, i) = {}
            /\ C20_NewInvoiceLines(r, p, i) # {} =>
                  /\ purchase[p].invoice_method = "order"
                  /\ LineInvoiceLines(Cur, p, i) = {}
                  /\ Cardinality(C20_NewInvoiceLines(r, p, i)) = 1
                  /\ \A x \in C20_NewInvoiceLines(r, p, i) :
                        /\ r.invoice[x[1]].lines[x[2]].type
                              = purchase[p].lines[i].type
                        /\ r.invoice[x[1]].lines[x[2]].quantity = 0

\* A purchase invoiced on order whose subtotal line and comment line have
\* an invoice line each.
C20_Witness ==
    \E p \in Existing :
        /\ purchase[p].invoice_method = "order"
        /\ \E i \in C20_OtherLines(p) :
              /\ purchase[p].lines[i].type = "subtotal"
              /\ LineInvoiceLines(Cur, p, i) # {}
        /\ \E i \in C20_OtherLines(p) :
              /\ purchase[p].lines[i].type = "comment"
              /\ LineInvoiceLines(Cur, p, i) # {}

\* --------------------------------------------------------------------- C21
\* The records of purchase p when process reaches its two create_move
\* calls, and after each of them.
C21_BeforeMoves(p) ==
    SetInvoiceState(
        CreateInvoice(CreateInvoice(Cur, p, "in_invoice"), p, "in_credit_note"),
        p)

C21_AfterIn(p) == CreateMove(C21_BeforeMoves(p), p, "in")

C21_AfterReturn(p) == CreateMove(C21_AfterIn(p), p, "return")

\* The moves each call created.
C21_InMoves(p) ==
    (DOMAIN C21_AfterIn(p).move) \ (DOMAIN C21_BeforeMoves(p).move)

C21_ReturnMoves(p) ==
    (DOMAIN C21_AfterReturn(p).move) \ (DOMAIN C21_AfterIn(p).move)

\* The quantity of the line a move of records r comes from.
C21_LineQuantity(r, m) ==
    r.purchase[r.move[m].origin[1]].lines[r.move[m].origin[2]].quantity

\* C21: in a process of a purchase that is neither done nor cancelled the
\* moves of the 'in' call come from lines of type 'line' with a quantity
\* >= 0 and the moves of the 'return' call from lines of type 'line' with a
\* quantity < 0; one return shipment is created if the 'return' call
\* created a move and none otherwise, and the moves of the new shipment are
\* the moves of that call; the other moves keep their shipment.
C21_Moves ==
    \A p \in Existing :
        ~ProcessSkips(purchase[p]) =>
            LET r == Process(Cur, <<p>>)
                before == C21_BeforeMoves(p)
            IN /\ before.move = move
               /\ DOMAIN r.move = (DOMAIN move) \cup C21_InMoves(p)
                                        \cup C21_ReturnMoves(p)
               /\ \A m \in C21_InMoves(p) :
                     /\ r.move[m].origin[1] = p
                     /\ r.purchase[p].lines[r.move[m].origin[2]].type = "line"
                     /\ C21_LineQuantity(r, m) >= 0
                     /\ r.move[m].shipment = 0
               /\ \A m \in C21_ReturnMoves(p) :
                     /\ r.move[m].origin[1] = p
                     /\ r.purchase[p].lines[r.move[m].origin[2]].type = "line"
                     /\ C21_LineQuantity(r, m) < 0
               /\ r.shipment_return
                     = IF C21_ReturnMoves(p) # {}
                       THEN shipment_return + 1 ELSE shipment_return
               /\ {m \in DOMAIN r.move :
                      r.move[m].shipment = shipment_return + 1}
                     = C21_ReturnMoves(p)
               /\ \A m \in DOMAIN move :
                     r.move[m].shipment = move[m].shipment

\* A purchase processed with a line to receive and a line to return: the
\* move of the first has no return shipment and the move of the second is
\* the one move of the return shipment.
C21_Witness ==
    /\ shipment_return = 1
    /\ \E m, n \in DOMAIN move :
          /\ move[m].origin[1] = move[n].origin[1]
          /\ C21_LineQuantity(Cur, m) >= 0
          /\ move[m].shipment = 0
          /\ C21_LineQuantity(Cur, n) < 0
          /\ move[n].shipment = 1
          /\ \A k \in DOMAIN move : move[k].shipment = 1 => k = n

\* --------------------------------------------------------------------- C22
\* The quantity line i of purchase p has on the invoices S of records r.
C22_Invoiced(r, p, i, S) ==
    SumInvoiceLineQuantity(r, {x \in LineInvoiceLines(r, p, i) : x[1] \in S})

\* The quantity line i of purchase p has on the moves S of records r.
C22_Moved(r, p, i, S) ==
    SumMoveQuantity(r, {m \in S : r.move[m].origin = <<p, i>>})

\* The invoices and the moves records r have and the current ones do not.
C22_NewInvoices(r) == (DOMAIN r.invoice) \ (DOMAIN invoice)

C22_NewMoves(r) == (DOMAIN r.move) \ (DOMAIN move)

\* The handle step of the invoice wizard with a selection: for every line,
\* what its process call invoices is what a process without the handle
\* would invoice, and the quantity the selected invoices carried for the
\* line. The same for the shipment wizard and the moves.
C22_InvoiceHandle(p, to_recreate) ==
    LET r == InvoiceHandle(Cur, p, to_recreate, wizard.domain)
        plain == Process(Cur, <<p>>)
    IN \A i \in DOMAIN purchase[p].lines :
          C22_Invoiced(r, p, i, C22_NewInvoices(r))
             = C22_Invoiced(plain, p, i, C22_NewInvoices(plain))
                  + C22_Invoiced(Cur, p, i, to_recreate)

C22_ShipmentHandle(p, to_recreate) ==
    LET r == ShipmentHandle(Cur, p, to_recreate, wizard.domain)
        plain == Process(Cur, <<p>>)
    IN \A i \in DOMAIN purchase[p].lines :
          C22_Moved(r, p, i, C22_NewMoves(r))
             = C22_Moved(plain, p, i, C22_NewMoves(plain))
                  + C22_Moved(Cur, p, i, to_recreate)

C23_Cleared ==
    /\ wizard.kind = "invoice" =>
          \A domain_invoices \in SUBSET DOMAIN invoice :
             \A to_recreate \in SUBSET domain_invoices :
                (/\ ~ProcessSkips(purchase[wizard.active_id])
                 /\ C17_Invoices(wizard.active_id) \subseteq domain_invoices)
                    => InvoiceHandle(Cur, wizard.active_id, to_recreate,
                                     domain_invoices)
                          .purchase[wizard.active_id].invoice_state
                             # "exception"
    /\ wizard.kind = "shipment" =>
          \A domain_moves \in SUBSET DOMAIN move :
             \A to_recreate \in SUBSET domain_moves :
                (/\ ~ProcessSkips(purchase[wizard.active_id])
                 /\ C17_Moves(wizard.active_id) \subseteq domain_moves)
                    => ShipmentHandle(Cur, wizard.active_id, to_recreate,
                                      domain_moves)
                          .purchase[wizard.active_id].shipment_state
                             # "exception"

\* The wizards have run on a confirmed purchase: a cancelled invoice and a
\* cancelled move are classified and neither stored state is 'exception'.
C23_Witness ==
    /\ wizard.kind = "none"
    /\ \E p \in Existing :
          /\ purchase[p].state = "confirmed"
          /\ \E i \in purchase[p].invoices_ignored
                        \cup purchase[p].invoices_recreated :
                invoice[i].state = "cancel"
          /\ \E m \in DOMAIN move :
                /\ move[m].state = "cancel"
                /\ move[m].origin[1] = p
                /\ m \notin C17_Moves(p)
          /\ purchase[p].invoice_state # "exception"
          /\ purchase[p].shipment_state # "exception"

\* --------------------------------------------------------------------- C24
\* C24: when process has run on a confirmed purchase and leaves it with the
\* shipment state 'received' and with linked invoices that are each paid or
\* ignored, the purchase is done (taken here for the purchases that have a
\* linked invoice).
C24_Completed ==
    \A p \in Existing :
        purchase[p].state = "confirmed" =>
            LET r == Process(Cur, <<p>>)
            IN (/\ r.purchase[p].shipment_state = "received"
                /\ r.purchase[p].invoices # {}
                /\ \A i \in r.purchase[p].invoices :
                      \/ r.invoice[i].state = "paid"
                      \/ i \in r.purchase[p].invoices_ignored)
                  => r.purchase[p].state = "done"

\* --------------------------------------------------------------------- C25
\* C25: process marks done a confirmed purchase whose lines all have a
\* service product or no product and which it leaves with active invoices
\* that are all paid (taken here for the purchases that have one).
C25_ServicesDone ==
    \A p \in Existing :
        (/\ purchase[p].state = "confirmed"
         /\ \A i \in DOMAIN purchase[p].lines :
               purchase[p].lines[i].product \in {"none", "service"})
            => LET r == Process(Cur, <<p>>)
               IN (/\ ActiveInvoices(r.purchase[p]) # {}
                   /\ \A i \in ActiveInvoices(r.purchase[p]) :
                         r.invoice[i].state = "paid")
                     => r.purchase[p].state = "done"

\* --------------------------------------------------------------------- C26
\* C26: a purchase in state draft or quotation has no linked invoice and no
\* stock move.
C26_Unconfirmed ==
    \A p \in Existing :
        purchase[p].state \in {"draft", "quotation"} =>
            /\ purchase[p].invoices = {}
            /\ PurchaseMoves(Cur, p) = {}

\* --------------------------------------------------------------------- C27
\* Records r leave purchase p as it is in the current ones, in state done,
\* and hold no object the current ones do not.
C27_Kept(r, p) ==
    /\ r.purchase[p].exists
    /\ r.purchase[p].state = "done"
    /\ DOMAIN r.invoice = DOMAIN invoice
    /\ DOMAIN r.move = DOMAIN move
    /\ r.shipment_return = shipment_return
    /\ r.purchase[p].invoices = purchase[p].invoices

\* Every operation on the done purchase p.
C27_Operations(p) ==
    /\ \A r \in {CancelOp(Cur, <<p>>), DraftOp(Cur, <<p>>), QuoteOp(Cur, <<p>>),
                 ConfirmOp(Cur, <<p>>), Process(Cur, <<p>>)} :
          r.error = "" /\ C27_Kept(r, p)
    /\ \A domain_invoices \in SUBSET DOMAIN invoice :
          \A to_recreate \in SUBSET domain_invoices :
             C27_Kept(InvoiceHandle(Cur, p, to_recreate, domain_invoices), p)
    /\ \A domain_moves \in SUBSET DOMAIN move :
          \A to_recreate \in SUBSET domain_moves :
             C27_Kept(ShipmentHandle(Cur, p, to_recreate, domain_moves), p)
    /\ DeleteOp(Cur, <<p>>).error = "delete_cancel"

\* C27: on a done purchase cancel, draft, quote, confirm, process and the
\* handle step of both wizards leave the state done and create no invoice,
\* no move and no return shipment, and delete raises delete_cancel; in
\* every step a done purchase stays, in state done, with the invoices and
\* the moves it had.
C27_Absorbing ==
    /\ [](\A p \in Existing : purchase[p].state = "done" => C27_Operations(p))
    /\ [][\A p \in Existing :
             purchase[p].state = "done" =>
                /\ purchase'[p].exists
                /\ purchase'[p].state = "done"
                /\ purchase'[p].invoices = purchase[p].invoices
                /\ DOMAIN invoice' = DOMAIN invoice
                /\ DOMAIN move' = DOMAIN move
                /\ shipment_return' = shipment_return]_vars

\* A done purchase with a paid invoice and a received move.
C27_Witness ==
    \E p \in Existing :
        /\ purchase[p].state = "done"
        /\ \E i \in purchase[p].invoices : invoice[i].state = "paid"
        /\ \E m \in PurchaseMoves(Cur, p) : move[m].state = "done"

\* --------------------------------------------------------------------- C28
\* The quantity of the moves of line i of purchase p that are not recreated.
C28_Moved(p, i) ==
    SumMoveQuantity(Cur,
        {m \in DOMAIN move :
            /\ move[m].origin = <<p, i>>
            /\ m \notin purchase[p].lines[i].moves_recreated})

\* The quantity of the invoice lines of type 'line' of line i of purchase p
\* that are not on a recreated invoice.
C28_Invoiced(p, i) ==
    SumInvoiceLineQuantity(Cur,
        {x \in LineInvoiceLines(Cur, p, i) :
            /\ invoice[x[1]].lines[x[2]].type = "line"
            /\ x[1] \notin purchase[p].invoices_recreated})

\* C28: whatever process and the wizards have done, the moves of a line of
\* type 'line' that are not recreated carry at most the absolute quantity
\* of the line, and so do its invoice lines of type 'line' that are not on
\* a recreated invoice.
C28_Bounded ==
    \A p \in Existing : \A i \in DOMAIN purchase[p].lines :
        purchase[p].lines[i].type = "line" =>
            /\ C28_Moved(p, i) <= Abs(purchase[p].lines[i].quantity)
            /\ C28_Invoiced(p, i) <= Abs(purchase[p].lines[i].quantity)

\* A line whose move was recreated and whose invoice was recreated: with
\* the replacements the line has twice its quantity in moves and in invoice
\* lines, and its quantity in the ones that count.
C28_Witness ==
    \E p \in Existing : \E i \in DOMAIN purchase[p].lines :
        /\ purchase[p].lines[i].type = "line"
        /\ purchase[p].lines[i].moves_recreated # {}
        /\ purchase[p].invoices_recreated # {}
        /\ C28_Moved(p, i) = Abs(purchase[p].lines[i].quantity)
        /\ C28_Invoiced(p, i) = Abs(purchase[p].lines[i].quantity)
        /\ SumMoveQuantity(Cur, LineMoves(Cur, p, i))
              = 2 * Abs(purchase[p].lines[i].quantity)
        /\ SumInvoiceLineQuantity(Cur, LineInvoiceLines(Cur, p, i))
              = 2 * Abs(purchase[p].lines[i].quantity)

\* --------------------------------------------------------------------- C29
\* C29: the copy of any purchase is a draft without reference, with both
\* states 'none', without linked, ignored or recreated invoices, and each
\* of its lines is without moves, ignored moves, recreated moves and
\* invoice lines.
C29_Copy ==
    \A p \in Existing :
        LET r == CopyOp(Cur, <<p>>)
            c == Len(purchase) + 1
        IN /\ Len(r.purchase) = c
           /\ r.purchase[c].state = "draft"
           /\ r.purchase[c].reference = 0
           /\ r.purchase[c].invoice_state = "none"
           /\ r.purchase[c].shipment_state = "none"
           /\ r.purchase[c].invoices = {}
           /\ r.purchase[c].invoices_ignored = {}
           /\ r.purchase[c].invoices_recreated = {}
           /\ \A i \in DOMAIN r.purchase[c].lines :
                 /\ LineMoves(r, c, i) = {}
                 /\ r.purchase[c].lines[i].moves_ignored = {}
                 /\ r.purchase[c].lines[i].moves_recreated = {}
                 /\ LineInvoiceLines(r, c, i) = {}

\* --------------------------------------------------------------------- C30
\* C30: the rows of the cost history have ids that differ whenever the
\* history rows they come from differ in date or in property id: the query
\* gives as many ids as there are history rows.
C30_DistinctIds ==
    cost_history # {} =>
        Cardinality({r.id : r \in cost_history})
            = Cardinality(ir_property_history)

====
